---- MODULE Spec2Model ----
(***************************************************************************)
(* Model of the upload path of src/app.py: upload_to_dropbox, which makes  *)
(* the parent folders (ensure_folder_exists / create_folder) and then      *)
(* dispatches on the file size to upload_small_file (one files_upload) or  *)
(* upload_large_file (upload session start / append / finish).             *)
(*                                                                         *)
(* A file's content is the byte sequence 0 .. L-1 of that file, so a slice *)
(* of it is the interval [lo, hi) of the positions it holds; the remote    *)
(* store keeps what it was sent as a sequence of such runs.  Paths are     *)
(* strings, modelled as sequences of one-character strings.                *)
(* Every remote call is one step, and is recorded in `calls` with its      *)
(* outcome, so that the order of the calls can be stated.                  *)
(***************************************************************************)
EXTENDS Integers, Sequences, FiniteSets, TLC

VARIABLES
    pc,            \* where the running upload is: idle, folders, small, start, loop, done
    entry,         \* the function the upload was entered through
    settings,      \* st.session_state.settings
    file_size,     \* len(file_content)
    chunk_size,    \* upload_large_file's chunk_size parameter
    overwrite,     \* upload_small_file's / upload_large_file's overwrite parameter
    target_path,   \* the destination path
    cursor,        \* the UploadSessionCursor of upload_large_file
    i,             \* the loop variable of upload_large_file
    components,    \* ensure_folder_exists: the components still to create
    current_path,  \* ensure_folder_exists: the path built so far
    calls,         \* the remote calls issued so far, in order, with their outcome
    remote,        \* the remote store: folders, objects and the upload session
    remote0,       \* the remote store as it was when the upload was called
    result,        \* the (success, error_msg) pair returned
    authenticated,       \* st.session_state.authenticated
    dbx_client,          \* st.session_state.dbx_client
    current_folder,      \* st.session_state.current_folder
    upload_history,      \* st.session_state.upload_history
    next_id,             \* the number of history entries made so far (their uuid)
    attempted,           \* every entry added since the history was last cleared, newest first
    uploaded_files,      \* the files of the running batch
    file_idx,            \* the batch loop's position in uploaded_files, from 1
    successful_uploads,  \* the batch loop's counter
    failed_uploads,      \* the batch loop's counter
    target_folder        \* the batch's normalized target folder

\* the application state around one upload
appvars == <<authenticated, dbx_client, current_folder, upload_history, next_id,
             attempted, uploaded_files, file_idx, successful_uploads,
             failed_uploads, target_folder>>

vars == <<pc, entry, settings, file_size, chunk_size, overwrite, target_path,
          cursor, i, components, current_path, calls, remote, remote0, result,
          appvars>>

---------------------------------------------------------------------------
(* Bounds of the model *)

\* the content lengths tried are 0 .. MaxLen (and the lengths around the threshold)
MaxLen == 6
\* the chunk sizes tried are -1 .. MaxChunk (and the configured 4 MiB)
MaxChunk == 3
\* the destination paths tried have 0 .. MaxDepth parent folders
MaxDepth == 2
\* the files the application attempts in all, over its batches
MaxFiles == 2
\* the calls of add_to_upload_history tried on their own: past the history limit
MaxHistoryAdds == 102
\* of these calls, the first MaxFailedAdds may record a failure
MaxFailedAdds == 2

---------------------------------------------------------------------------
(* Program constants *)

\* settings["chunk_size"]
DefaultChunkSize == 4 * 1024 * 1024
\* upload_to_dropbox's size threshold
SmallFileThreshold == 150 * 1024 * 1024
\* settings["max_file_size_mb"]
DefaultMaxFileSizeMb == 500
\* add_to_upload_history keeps this many entries
HistoryLimit == 100

Min(a, b) == IF a < b THEN a ELSE b
Max(a, b) == IF a > b THEN a ELSE b

None == "None"

---------------------------------------------------------------------------
(* Strings and paths *)

SegNames == <<"a", "b", "c", "d">>

RECURSIVE PathTo(_)
\* "/a/b/.../" down to the d-th folder, without the trailing slash: "" for d = 0
PathTo(d) == IF d = 0 THEN <<>> ELSE PathTo(d - 1) \o <<"/", SegNames[d]>>

\* the destination paths tried: "f", "/f", "/a/f", "/a/b/f", ...
TargetPaths == {<<"f">>} \cup {PathTo(d) \o <<"/", "f">> : d \in 0..MaxDepth}

\* the folders of these paths
AllFolders == {PathTo(d) : d \in 1..MaxDepth}

\* str.rfind("/") + 1
RFindSlash(p) ==
    LET idx == {k \in 1..Len(p) : p[k] = "/"}
    IN  IF idx = {} THEN 0 ELSE CHOOSE k \in idx : \A j \in idx : j <= k

RECURSIVE RStripSlash(_)
RStripSlash(p) ==
    IF p # <<>> /\ p[Len(p)] = "/" THEN RStripSlash(SubSeq(p, 1, Len(p) - 1)) ELSE p

\* os.path.dirname (posixpath)
DirName(p) ==
    LET head == SubSeq(p, 1, RFindSlash(p))
    IN  IF head # <<>> /\ \E k \in 1..Len(head) : head[k] # "/"
        THEN RStripSlash(head) ELSE head

RECURSIVE SplitAcc(_, _, _)
SplitAcc(p, cur, acc) ==
    IF p = <<>> THEN Append(acc, cur)
    ELSE IF Head(p) = "/" THEN SplitAcc(Tail(p), <<>>, Append(acc, cur))
    ELSE SplitAcc(Tail(p), Append(cur, Head(p)), acc)

\* path.split("/")
Split(p) == SplitAcc(p, <<>>, <<>>)

NonEmpty(c) == c # <<>>

\* ensure_folder_exists: components = [c for c in path.split("/") if c]
Components(path) == SelectSeq(Split(path), NonEmpty)

\* str.lower, on the letters used
Lower(c) == IF c = "P" THEN "p" ELSE IF c = "T" THEN "t" ELSE c

LowerStr(p) == [k \in 1..Len(p) |-> Lower(p[k])]

\* str.replace of one character by another
ReplaceChar(p, old, new) == [k \in 1..Len(p) |-> IF p[k] = old THEN new ELSE p[k]]

RECURSIVE CollapseSlashes(_)
\* while "//" in path: path = path.replace("//", "/")
CollapseSlashes(p) ==
    IF \E k \in 1..(Len(p) - 1) : p[k] = "/" /\ p[k + 1] = "/"
    THEN LET k == CHOOSE j \in 1..(Len(p) - 1) : p[j] = "/" /\ p[j + 1] = "/"
         IN  CollapseSlashes(SubSeq(p, 1, k) \o SubSeq(p, k + 2, Len(p)))
    ELSE p

\* normalize_path
NormalizePath(path) ==
    IF path = <<>> THEN <<"/">>
    ELSE LET q == ReplaceChar(path, "\\", "/")
             r == IF Head(q) = "/" THEN q ELSE <<"/">> \o q
         IN  CollapseSlashes(r)

\* os.path.join(a, b) (posixpath)
PathJoin(a, b) ==
    IF b # <<>> /\ Head(b) = "/" THEN b
    ELSE IF a = <<>> \/ a[Len(a)] = "/" THEN a \o b
    ELSE a \o <<"/">> \o b

\* the batch loop's target_path for a file name
BatchTargetPath(folder, file_name) ==
    LET joined == ReplaceChar(PathJoin(folder, file_name), "\\", "/")
    IN  IF joined # <<>> /\ Head(joined) = "/" THEN joined ELSE <<"/">> \o joined

\* os.path.splitext(p)[1] (posixpath)
SplitExt(p) ==
    LET sepIndex == RFindSlash(p)
        dots == {k \in 1..Len(p) : p[k] = "."}
        dotIndex == IF dots = {} THEN 0 ELSE CHOOSE k \in dots : \A j \in dots : j <= k
    IN  IF dotIndex > sepIndex
           /\ \E k \in (sepIndex + 1)..(dotIndex - 1) : p[k] # "."
        THEN SubSeq(p, dotIndex, Len(p))
        ELSE <<>>

RECURSIVE SplitCommaAcc(_, _, _)
SplitCommaAcc(p, cur, acc) ==
    IF p = <<>> THEN Append(acc, cur)
    ELSE IF Head(p) = "," THEN SplitCommaAcc(Tail(p), <<>>, Append(acc, cur))
    ELSE SplitCommaAcc(Tail(p), Append(cur, Head(p)), acc)

\* str.split(',')
SplitComma(p) == SplitCommaAcc(p, <<>>, <<>>)

RECURSIVE Strip(_)
\* str.strip, of blanks
Strip(p) ==
    IF p # <<>> /\ Head(p) = " " THEN Strip(Tail(p))
    ELSE IF p # <<>> /\ p[Len(p)] = " " THEN Strip(SubSeq(p, 1, Len(p) - 1))
    ELSE p

---------------------------------------------------------------------------
(* The files, folders and settings the application is given *)

\* bytes in a megabyte, as is_valid_file_size counts them
MiB == 1024 * 1024

\* the files a batch is made of: name and size
BatchFiles ==
    {[name |-> <<"a", ".", "t">>, size |-> MiB],
     [name |-> <<"b", ".", "P">>, size |-> MiB + 1],
     [name |-> <<"c">>, size |-> SmallFileThreshold]}

\* what the target folder field is given: "/" and "a\/b"
TargetFolders == {<<"/">>, <<"a", "\\", "/", "b">>}

\* what the current path field is given
NavFolders == {<<"a">>}

\* the values save_settings is given for max_file_size_mb (the number input
\* allows 1 .. 2000) and for allowed_extensions: "*", ".t" and ".t, .P"
MaxFileSizeSettings == {1, DefaultMaxFileSizeMb}
AllowedExtensionSettings ==
    {<<"*">>, <<".", "t">>, <<".", "t", ",", " ", ".", "P">>}

\* the destination paths of the batches
BatchPaths ==
    {BatchTargetPath(NormalizePath(tf), f.name) : tf \in TargetFolders, f \in BatchFiles}

\* the paths the remote store is asked about
ObjectPaths == TargetPaths \cup BatchPaths

---------------------------------------------------------------------------
(* Byte slices *)

\* a Python slice bound, clamped to the buffer
PyIndex(k, L) == IF k < 0 THEN Max(k + L, 0) ELSE Min(k, L)

\* file_content[a:b]: the positions [lo, hi) of the content
PySlice(a, b, L) ==
    LET lo == PyIndex(a, L)
        hi == PyIndex(b, L)
    IN  [lo |-> lo, hi |-> Max(lo, hi)]

NoPayload == [lo |-> 0, hi |-> 0]

PayloadLen(p) == p.hi - p.lo

---------------------------------------------------------------------------
(* The remote store *)

\* the whole content of the uploaded file, as the store holds it
ContentData(L) == IF L = 0 THEN <<>> ELSE <<[file |-> "new", lo |-> 0, hi |-> L]>>

\* what an object that was there before the upload holds
OldData == <<[file |-> "old", lo |-> 0, hi |-> 1]>>

NoObject == [exists |-> FALSE, data |-> <<>>]
Object(data) == [exists |-> TRUE, data |-> data]

NoSession == [open |-> FALSE, data |-> <<>>]
Session(data) == [open |-> TRUE, data |-> data]

\* the store appends a payload to the data it holds
Concat(data, p) ==
    IF p.lo = p.hi THEN data
    ELSE IF data # <<>> /\ data[Len(data)].file = "new" /\ data[Len(data)].hi = p.lo
    THEN [data EXCEPT ![Len(data)].hi = p.hi]
    ELSE Append(data, [file |-> "new", lo |-> p.lo, hi |-> p.hi])

RECURSIVE DataLen(_)
DataLen(data) ==
    IF data = <<>> THEN 0 ELSE (Head(data).hi - Head(data).lo) + DataLen(Tail(data))

\* the session id the store issues
SessionId == 1

\* a write in mode add is refused when the path holds an object
ModeAllows(mode, path) == mode = "overwrite" \/ ~remote.objects[path].exists

\* the store refuses a cursor whose offset is not the number of bytes it holds
OffsetAgrees == remote.session.open /\ cursor.offset = DataLen(remote.session.data)

\* the outcomes of the remote calls: "ok", or an exception
UploadOutcomes(mode, path) ==
    IF ModeAllows(mode, path) THEN {"ok", "error"} ELSE {"error"}

SessionStartOutcomes == {"ok", "error"}

SessionAppendOutcomes == IF OffsetAgrees THEN {"ok", "error"} ELSE {"error"}

SessionFinishOutcomes(mode, path) ==
    IF OffsetAgrees /\ ModeAllows(mode, path) THEN {"ok", "error"} ELSE {"error"}

\* "conflict" is the ApiError whose path error is a conflict
CreateFolderOutcomes(path) ==
    IF path \in remote.folders THEN {"conflict", "error"} ELSE {"ok", "error"}

Call(op, payload, offset, path, mode, outcome) ==
    [op |-> op, payload |-> payload, offset |-> offset, path |-> path,
     mode |-> mode, outcome |-> outcome]

---------------------------------------------------------------------------
(* Initial state *)

NoCursor == [session_id |-> 0, offset |-> 0]

\* a folder is there only under its parent
FolderSets == {{PathTo(k) : k \in 1..d} : d \in 0..MaxDepth}

\* the paths that hold an object before the upload: none or one
OldObjectSets == {{}} \cup {{p} : p \in TargetPaths}

Init ==
    /\ pc = "idle"
    /\ entry = "none"
    /\ settings = [max_file_size_mb |-> DefaultMaxFileSizeMb,
                   allowed_extensions |-> <<"*">>,
                   chunk_size |-> DefaultChunkSize,
                   create_folders_if_not_exist |-> TRUE,
                   overwrite_existing |-> TRUE,
                   save_credentials |-> FALSE]
    /\ file_size = 0
    /\ chunk_size = 0
    /\ overwrite = TRUE
    /\ target_path = <<>>
    /\ cursor = NoCursor
    /\ i = 0
    /\ components = <<>>
    /\ current_path = <<>>
    /\ calls = <<>>
    /\ \E fs \in FolderSets, old \in OldObjectSets :
          remote = [folders |-> fs,
                    objects |-> [p \in ObjectPaths |->
                                   IF p \in old THEN Object(OldData) ELSE NoObject],
                    session |-> NoSession]
    /\ remote0 = remote
    /\ result = <<>>
    /\ authenticated = FALSE
    /\ dbx_client = None
    /\ current_folder = <<>>
    /\ upload_history = <<>>
    /\ next_id = 0
    /\ attempted = <<>>
    /\ uploaded_files = <<>>
    /\ file_idx = 0
    /\ successful_uploads = 0
    /\ failed_uploads = 0
    /\ target_folder = <<>>

---------------------------------------------------------------------------
(* Inputs *)

\* the (content length, chunk size) pairs upload_large_file is called with
LargeInputs ==
    ((0..MaxLen) \X (-1..MaxChunk))
        \cup {<<10 * 1000 * 1000, DefaultChunkSize>>,
              <<DefaultChunkSize, DefaultChunkSize>>}

\* the file sizes upload_to_dropbox is called with
FileSizes ==
    (0..MaxLen) \cup {SmallFileThreshold - 1, SmallFileThreshold,
                      SmallFileThreshold + 1, 38 * DefaultChunkSize}

---------------------------------------------------------------------------
(* upload_small_file / upload_large_file *)

\* mode = WriteMode.overwrite if overwrite else WriteMode.add
WriteModeOf(ow) == IF ow THEN "overwrite" ELSE "add"

\* str(e)
ErrorMsg == "error"

\* mutant: the failed call is retried instead of ending the upload
ExceptRetry ==
    /\ result' = result
    /\ pc' = pc

\* mutant: the except clauses return no message
ExceptReturnNoMsg ==
    /\ result' = <<FALSE, None>>
    /\ pc' = "done"

\* the except clauses: return False, error_msg
ExceptReturn ==
    /\ result' = <<FALSE, ErrorMsg>>
    /\ pc' = "done"

\* return True, None
ReturnTrue ==
    /\ result' = <<TRUE, None>>
    /\ pc' = "done"

\* the offset the cursor is made with
StartOffset(C) == C

\* membership of idx in range(start, stop, step), for an idx the loop has reached
InRange(idx, stop, step) == IF step > 0 THEN idx < stop ELSE idx > stop

\* mutant: the end of the chunk is not clamped to the buffer
ChunkEndNoClamp(idx, C, L) == idx + C

\* end = min(i + chunk_size, file_size)
ChunkEnd(idx, C, L) == Min(idx + C, L)

\* mutant: the last chunk is detected one byte early
IsLastChunkOffByOne(end, L) == end >= L - 1

\* if end == file_size
IsLastChunk(end, L) == end = L

\* mutant: the cursor is not advanced after an append
AdvanceOffsetStale(cur, end) == cur

\* cursor.offset = end
AdvanceOffset(cur, end) == [cur EXCEPT !.offset = end]

\* upload_large_file called on its own
UploadLargeFile(L, C, ow, path) ==
    /\ pc = "idle"
    /\ entry' = "large"
    /\ file_size' = L
    /\ chunk_size' = C
    /\ overwrite' = ow
    /\ target_path' = path
    /\ pc' = "start"
    /\ UNCHANGED <<settings, cursor, i, components, current_path, calls, remote,
                   remote0, result>>
    /\ UNCHANGED appvars

\* dbx.files_upload_session_start(file_content[:chunk_size]), the cursor, and the
\* evaluation of range(chunk_size, file_size, chunk_size)
SessionStart ==
    /\ pc = "start"
    /\ \E outcome \in SessionStartOutcomes :
         LET payload == PySlice(0, chunk_size, file_size)
         IN  /\ calls' = Append(calls,
                    Call("session_start", payload, 0, <<>>, "none", outcome))
             /\ IF outcome = "ok"
                THEN /\ remote' = [remote EXCEPT !.session = Session(Concat(<<>>, payload))]
                     /\ cursor' = [session_id |-> SessionId,
                                   offset |-> StartOffset(chunk_size)]
                     /\ IF chunk_size = 0
                        THEN \* range() arg 3 must not be zero: ValueError
                             /\ ExceptReturn
                             /\ i' = i
                        ELSE /\ pc' = "loop"
                             /\ i' = chunk_size
                             /\ result' = result
                ELSE /\ ExceptReturn
                     /\ UNCHANGED <<remote, cursor, i>>
    /\ UNCHANGED <<entry, settings, file_size, chunk_size, overwrite, target_path,
                   components, current_path, remote0>>
    /\ UNCHANGED appvars

\* one iteration that is not the last chunk: files_upload_session_append_v2
SessionAppend ==
    /\ pc = "loop"
    /\ InRange(i, file_size, chunk_size)
    /\ LET end == ChunkEnd(i, chunk_size, file_size)
       IN  /\ ~IsLastChunk(end, file_size)
           /\ \E outcome \in SessionAppendOutcomes :
                LET payload == PySlice(i, end, file_size)
                IN  /\ calls' = Append(calls,
                          Call("session_append", payload, cursor.offset, <<>>,
                               "none", outcome))
                    /\ IF outcome = "ok"
                       THEN /\ remote' = [remote EXCEPT
                                   !.session = Session(Concat(remote.session.data, payload))]
                            /\ cursor' = AdvanceOffset(cursor, end)
                            /\ i' = i + chunk_size
                            /\ UNCHANGED <<pc, result>>
                       ELSE /\ ExceptReturn
                            /\ UNCHANGED <<remote, cursor, i>>
    /\ UNCHANGED <<entry, settings, file_size, chunk_size, overwrite, target_path,
                   components, current_path, remote0>>
    /\ UNCHANGED appvars

\* the iteration of the last chunk: files_upload_session_finish with the commit
SessionFinish ==
    /\ pc = "loop"
    /\ InRange(i, file_size, chunk_size)
    /\ LET end == ChunkEnd(i, chunk_size, file_size)
           mode == WriteModeOf(overwrite)
       IN  /\ IsLastChunk(end, file_size)
           /\ \E outcome \in SessionFinishOutcomes(mode, target_path) :
                LET payload == PySlice(i, end, file_size)
                IN  /\ calls' = Append(calls,
                          Call("session_finish", payload, cursor.offset,
                               target_path, mode, outcome))
                    /\ IF outcome = "ok"
                       THEN /\ remote' = [remote EXCEPT
                                   !.objects[target_path] =
                                       Object(Concat(remote.session.data, payload)),
                                   !.session = NoSession]
                            /\ i' = i + chunk_size
                            /\ UNCHANGED <<pc, result>>
                       ELSE /\ ExceptReturn
                            /\ UNCHANGED <<remote, i>>
    /\ UNCHANGED <<entry, settings, file_size, chunk_size, overwrite, target_path,
                   cursor, components, current_path, remote0>>
    /\ UNCHANGED appvars

\* the range is exhausted: return True, None
LoopEnd ==
    /\ pc = "loop"
    /\ ~InRange(i, file_size, chunk_size)
    /\ ReturnTrue
    /\ UNCHANGED <<entry, settings, file_size, chunk_size, overwrite, target_path,
                   cursor, i, components, current_path, calls, remote, remote0>>
    /\ UNCHANGED appvars

\* upload_small_file: dbx.files_upload(file_content, target_path, mode=mode)
FilesUpload ==
    /\ pc = "small"
    /\ LET mode == WriteModeOf(overwrite)
           payload == PySlice(0, file_size, file_size)
       IN  \E outcome \in UploadOutcomes(mode, target_path) :
             /\ calls' = Append(calls,
                    Call("files_upload", payload, 0, target_path, mode, outcome))
             /\ IF outcome = "ok"
                THEN /\ remote' = [remote EXCEPT
                            !.objects[target_path] = Object(Concat(<<>>, payload))]
                     /\ ReturnTrue
                ELSE /\ ExceptReturn
                     /\ remote' = remote
    /\ UNCHANGED <<entry, settings, file_size, chunk_size, overwrite, target_path,
                   cursor, i, components, current_path, remote0>>
    /\ UNCHANGED appvars

---------------------------------------------------------------------------
(* upload_to_dropbox, ensure_folder_exists, create_folder *)

\* mutant: a folder that is already there counts as a failure
CreateFolderResultStrict(outcome) == outcome = "ok"

\* create_folder's return value for an outcome of files_create_folder_v2
CreateFolderResult(outcome) == outcome \in {"ok", "conflict"}

\* the components ensure_folder_exists goes through
EnsureComponents(path) ==
    IF path = <<"/">> \/ path = <<>> THEN <<>> ELSE Components(path)

\* mutant: a file of exactly the threshold goes the direct way
DispatchInclusive(L) == IF L <= SmallFileThreshold THEN "small" ELSE "start"

\* if file_size < 150 * 1024 * 1024: upload_small_file, else upload_large_file
Dispatch(L) == IF L < SmallFileThreshold THEN "small" ELSE "start"

\* the folders to make for a destination under the settings
FoldersToMake(path, st) ==
    LET parent_folder == DirName(path)
    IN  IF st.create_folders_if_not_exist /\ parent_folder # <<>>
        THEN EnsureComponents(parent_folder) ELSE <<>>

\* upload_to_dropbox is entered: its locals are fresh, and it goes to the folder
\* step or, with no folder to make, to the upload the size selects
EnterUploadToDropbox(L, path) ==
    /\ entry' = "dropbox"
    /\ file_size' = L
    /\ chunk_size' = settings.chunk_size
    /\ overwrite' = settings.overwrite_existing
    /\ target_path' = path
    /\ components' = FoldersToMake(path, settings)
    /\ current_path' = <<>>
    /\ pc' = IF components' # <<>> THEN "folders" ELSE Dispatch(L)
    /\ cursor' = NoCursor
    /\ i' = 0
    /\ calls' = <<>>
    /\ remote0' = remote
    /\ result' = <<>>
    /\ UNCHANGED <<settings, remote>>

\* upload_to_dropbox called on its own
UploadToDropbox(L, path) ==
    /\ pc = "idle"
    /\ EnterUploadToDropbox(L, path)
    /\ UNCHANGED appvars

\* str(e) of an exception caught by upload_to_dropbox itself
UnexpectedMsg == "unexpected error"

\* upload_to_dropbox: an exception raised before the folder step (file.getvalue())
\* goes to its own except clause: return False, str(e)
EnterUploadToDropboxRaises(L, path) ==
    /\ entry' = "dropbox"
    /\ file_size' = L
    /\ target_path' = path
    /\ result' = <<FALSE, UnexpectedMsg>>
    /\ pc' = "done"
    /\ cursor' = NoCursor
    /\ i' = 0
    /\ calls' = <<>>
    /\ remote0' = remote
    /\ components' = <<>>
    /\ current_path' = <<>>
    /\ UNCHANGED <<settings, chunk_size, overwrite, remote>>

UploadToDropboxRaises(L, path) ==
    /\ pc = "idle"
    /\ EnterUploadToDropboxRaises(L, path)
    /\ UNCHANGED appvars

\* one iteration of ensure_folder_exists: create_folder(dbx, current_path)
CreateFolder ==
    /\ pc = "folders"
    /\ LET path == current_path \o <<"/">> \o Head(components)
       IN  \E outcome \in CreateFolderOutcomes(path) :
             /\ calls' = Append(calls,
                    Call("create_folder", NoPayload, 0, path, "none", outcome))
             /\ remote' = IF outcome = "ok"
                          THEN [remote EXCEPT !.folders = @ \cup {path}]
                          ELSE remote
             /\ IF CreateFolderResult(outcome)
                THEN /\ current_path' = path
                     /\ components' = Tail(components)
                     /\ pc' = IF components' # <<>> THEN "folders"
                              ELSE Dispatch(file_size)
                     /\ result' = result
                ELSE /\ result' = <<FALSE, "Failed to create parent folders">>
                     /\ pc' = "done"
                     /\ UNCHANGED <<current_path, components>>
    /\ UNCHANGED <<entry, settings, file_size, chunk_size, overwrite, target_path,
                   cursor, i, remote0>>
    /\ UNCHANGED appvars

\* mutant: save_settings also writes chunk_size
SaveSettingsChunk(m, a, cf, ow, sc) ==
    /\ pc = "idle"
    /\ settings' = [settings EXCEPT !.max_file_size_mb = m,
                                    !.allowed_extensions = a,
                                    !.chunk_size = m * 1024 * 1024,
                                    !.create_folders_if_not_exist = cf,
                                    !.overwrite_existing = ow,
                                    !.save_credentials = sc]
    /\ settings' # settings
    /\ UNCHANGED <<pc, entry, file_size, chunk_size, overwrite, target_path, cursor,
                   i, components, current_path, calls, remote, remote0, result>>
    /\ UNCHANGED appvars

\* save_settings: the fields it writes
SaveSettings(m, a, cf, ow, sc) ==
    /\ pc = "idle"
    /\ settings' = [settings EXCEPT !.max_file_size_mb = m,
                                    !.allowed_extensions = a,
                                    !.create_folders_if_not_exist = cf,
                                    !.overwrite_existing = ow,
                                    !.save_credentials = sc]
    /\ settings' # settings
    /\ UNCHANGED <<pc, entry, file_size, chunk_size, overwrite, target_path, cursor,
                   i, components, current_path, calls, remote, remote0, result>>
    /\ UNCHANGED appvars

Next ==
    \/ \E in \in LargeInputs, ow \in BOOLEAN, path \in TargetPaths :
          UploadLargeFile(in[1], in[2], ow, path)
    \/ \E L \in FileSizes, path \in TargetPaths : UploadToDropbox(L, path)
    \/ \E L \in FileSizes, path \in TargetPaths : UploadToDropboxRaises(L, path)
    \/ \E cf \in BOOLEAN, ow \in BOOLEAN :
          SaveSettings(DefaultMaxFileSizeMb, <<"*">>, cf, ow, FALSE)
    \/ SessionStart
    \/ SessionAppend
    \/ SessionFinish
    \/ LoopEnd
    \/ FilesUpload
    \/ CreateFolder

Spec == Init /\ [][Next]_vars

---------------------------------------------------------------------------
(* The application: history, session, validation and the batch loop *)

\* mutant: a file of exactly the limit is refused
IsValidFileSizeStrict(size, st) == size < st.max_file_size_mb * 1024 * 1024

\* is_valid_file_size
IsValidFileSize(size, st) == size <= st.max_file_size_mb * 1024 * 1024

\* is_valid_file_type
IsValidFileType(file_name, st) ==
    IF st.allowed_extensions = <<"*">> THEN TRUE
    ELSE LET ext == LowerStr(SplitExt(file_name))
             parts == SplitComma(st.allowed_extensions)
             allowed == {LowerStr(Strip(parts[k])) : k \in 1..Len(parts)}
         IN  ext \in allowed

\* the history_entry of add_to_upload_history; the uuid is the entry's number,
\* the formatted size and the timestamp are display fields left out
HistoryEntry(id, file_name, size, path, status, error_message) ==
    [id |-> id, file_name |-> file_name, target_path |-> path,
     status |-> status, error_message |-> error_message]

\* mutant: the list is cut to its last 100 entries
AddToUploadHistoryKeepTail(h, e) ==
    LET ins == <<e>> \o h
    IN  IF Len(ins) > HistoryLimit THEN SubSeq(ins, Len(ins) - HistoryLimit + 1, Len(ins))
        ELSE ins

\* add_to_upload_history: insert(0, entry), then keep upload_history[:100]
AddToUploadHistory(h, e) ==
    LET ins == <<e>> \o h
    IN  IF Len(ins) > HistoryLimit THEN SubSeq(ins, 1, HistoryLimit) ELSE ins

\* a call of add_to_upload_history
RecordHistory(file_name, size, path, status, error_message) ==
    LET e == HistoryEntry(next_id + 1, file_name, size, path, status, error_message)
    IN  /\ upload_history' = AddToUploadHistory(upload_history, e)
        /\ next_id' = next_id + 1
        /\ attempted' = <<e>> \o attempted

\* the locals of the upload functions
uploadvars == <<entry, file_size, chunk_size, overwrite, target_path, cursor, i,
                components, current_path, calls, remote, remote0, result>>

\* add_to_upload_history called on its own
AddToUploadHistoryCall(status) ==
    /\ pc = "idle"
    /\ next_id < MaxHistoryAdds
    /\ status = "Failed" => next_id < MaxFailedAdds
    /\ RecordHistory(<<"a", ".", "t">>, MiB, <<"/", "a", ".", "t">>, status,
                     IF status = "Failed" THEN ErrorMsg ELSE None)
    /\ UNCHANGED <<pc, settings, uploadvars, authenticated, dbx_client,
                   current_folder, uploaded_files, file_idx, successful_uploads,
                   failed_uploads, target_folder>>

\* clear_upload_history
ClearUploadHistory ==
    /\ pc = "idle"
    /\ upload_history' = <<>>
    /\ attempted' = <<>>
    /\ UNCHANGED <<pc, settings, uploadvars, authenticated, dbx_client,
                   current_folder, next_id, uploaded_files, file_idx,
                   successful_uploads, failed_uploads, target_folder>>

\* the main content area is shown
Connected == authenticated /\ dbx_client # None

\* the Clear History button, shown with a history that is not empty
ClearHistoryButton ==
    /\ Connected
    /\ upload_history # <<>>
    /\ ClearUploadHistory

\* get_dropbox_client, from the Connect button: the connection works or not
Connect(ok) ==
    /\ pc = "idle"
    /\ authenticated' = ok
    /\ dbx_client' = IF ok THEN "dbx" ELSE None
    /\ UNCHANGED <<pc, settings, uploadvars, current_folder, upload_history, next_id,
                   attempted, uploaded_files, file_idx, successful_uploads,
                   failed_uploads, target_folder>>

\* logout, from the Logout button
Logout ==
    /\ pc = "idle"
    /\ authenticated
    /\ authenticated' = FALSE
    /\ dbx_client' = None
    /\ current_folder' = <<>>
    /\ UNCHANGED <<pc, settings, uploadvars, upload_history, next_id, attempted,
                   uploaded_files, file_idx, successful_uploads, failed_uploads,
                   target_folder>>

\* the Current Path field
Navigate(path) ==
    /\ pc = "idle"
    /\ Connected
    /\ path # current_folder
    /\ current_folder' = NormalizePath(path)
    /\ UNCHANGED <<pc, settings, uploadvars, authenticated, dbx_client,
                   upload_history, next_id, attempted, uploaded_files, file_idx,
                   successful_uploads, failed_uploads, target_folder>>

\* the Upload to Dropbox button with files chosen and a target folder given
UploadButton(files, folder) ==
    /\ pc = "idle"
    /\ Connected
    /\ files # <<>>
    /\ folder # <<>>
    /\ next_id + Len(files) <= MaxFiles
    /\ target_folder' = NormalizePath(folder)
    /\ uploaded_files' = files
    /\ file_idx' = 1
    /\ successful_uploads' = 0
    /\ failed_uploads' = 0
    /\ pc' = "batch"
    /\ UNCHANGED <<settings, uploadvars, authenticated, dbx_client, current_folder,
                   upload_history, next_id, attempted>>

\* the file the batch loop is at
CurrentFile == uploaded_files[file_idx]

CurrentTargetPath == BatchTargetPath(target_folder, CurrentFile.name)

\* f"File exceeds maximum size limit of {max_file_size_mb} MB"
SizeLimitMsg(mb) == "File exceeds maximum size limit of " \o ToString(mb) \o " MB"

\* the batch loop: the file's type is not allowed
BatchRejectType ==
    /\ pc = "batch"
    /\ file_idx <= Len(uploaded_files)
    /\ ~IsValidFileType(CurrentFile.name, settings)
    /\ RecordHistory(CurrentFile.name, CurrentFile.size, CurrentTargetPath, "Failed",
                     "File type not allowed")
    /\ failed_uploads' = failed_uploads + 1
    /\ file_idx' = file_idx + 1
    /\ UNCHANGED <<pc, settings, uploadvars, authenticated, dbx_client,
                   current_folder, uploaded_files, successful_uploads, target_folder>>

\* the batch loop: the file is too large
BatchRejectSize ==
    /\ pc = "batch"
    /\ file_idx <= Len(uploaded_files)
    /\ IsValidFileType(CurrentFile.name, settings)
    /\ ~IsValidFileSize(CurrentFile.size, settings)
    /\ RecordHistory(CurrentFile.name, CurrentFile.size, CurrentTargetPath, "Failed",
                     SizeLimitMsg(settings.max_file_size_mb))
    /\ failed_uploads' = failed_uploads + 1
    /\ file_idx' = file_idx + 1
    /\ UNCHANGED <<pc, settings, uploadvars, authenticated, dbx_client,
                   current_folder, uploaded_files, successful_uploads, target_folder>>

\* the batch loop: the file is valid, upload_to_dropbox is called
BatchUpload ==
    /\ pc = "batch"
    /\ file_idx <= Len(uploaded_files)
    /\ IsValidFileType(CurrentFile.name, settings)
    /\ IsValidFileSize(CurrentFile.size, settings)
    /\ \/ EnterUploadToDropbox(CurrentFile.size, CurrentTargetPath)
       \/ EnterUploadToDropboxRaises(CurrentFile.size, CurrentTargetPath)
    /\ UNCHANGED appvars

\* upload_to_dropbox has returned: its locals are gone, and with the cursor the
\* only reference to the upload session, which the store's model then drops
ResetUploadLocals ==
    /\ entry' = "none"
    /\ file_size' = 0
    /\ chunk_size' = 0
    /\ overwrite' = TRUE
    /\ target_path' = <<>>
    /\ cursor' = NoCursor
    /\ i' = 0
    /\ components' = <<>>
    /\ current_path' = <<>>
    /\ calls' = <<>>
    /\ remote' = [remote EXCEPT !.session = NoSession]
    /\ remote0' = remote'
    /\ result' = <<>>

\* mutant: a failed upload ends the batch
BatchRecordStops ==
    /\ pc = "done"
    /\ uploaded_files # <<>>
    /\ IF result[1]
       THEN /\ RecordHistory(CurrentFile.name, CurrentFile.size, CurrentTargetPath,
                             "Success", None)
            /\ successful_uploads' = successful_uploads + 1
            /\ failed_uploads' = failed_uploads
            /\ pc' = "batch"
       ELSE /\ RecordHistory(CurrentFile.name, CurrentFile.size, CurrentTargetPath,
                             "Failed", result[2])
            /\ failed_uploads' = failed_uploads + 1
            /\ successful_uploads' = successful_uploads
            /\ pc' = "finished"
    /\ file_idx' = file_idx + 1
    /\ ResetUploadLocals
    /\ UNCHANGED <<settings, authenticated, dbx_client, current_folder,
                   uploaded_files, target_folder>>

\* the batch loop: upload_to_dropbox has returned; history and counters
BatchRecord ==
    /\ pc = "done"
    /\ uploaded_files # <<>>
    /\ IF result[1]
       THEN /\ RecordHistory(CurrentFile.name, CurrentFile.size, CurrentTargetPath,
                             "Success", None)
            /\ successful_uploads' = successful_uploads + 1
            /\ failed_uploads' = failed_uploads
       ELSE /\ RecordHistory(CurrentFile.name, CurrentFile.size, CurrentTargetPath,
                             "Failed", result[2])
            /\ failed_uploads' = failed_uploads + 1
            /\ successful_uploads' = successful_uploads
    /\ file_idx' = file_idx + 1
    /\ pc' = "batch"
    /\ ResetUploadLocals
    /\ UNCHANGED <<settings, authenticated, dbx_client, current_folder,
                   uploaded_files, target_folder>>

\* the batch loop is over: the final status is shown
BatchEnd ==
    /\ pc = "batch"
    /\ file_idx > Len(uploaded_files)
    /\ pc' = "finished"
    /\ UNCHANGED <<settings, uploadvars, appvars>>

\* st.experimental_rerun(): the script's locals are gone
Rerun ==
    /\ pc = "finished"
    /\ pc' = "idle"
    /\ ResetUploadLocals
    /\ uploaded_files' = <<>>
    /\ file_idx' = 0
    /\ successful_uploads' = 0
    /\ failed_uploads' = 0
    /\ target_folder' = <<>>
    /\ UNCHANGED <<settings, authenticated, dbx_client, current_folder,
                   upload_history, next_id, attempted>>

\* the batches tried: 1 .. MaxFiles files
Batches == UNION {[1..n -> BatchFiles] : n \in 1..MaxFiles}

\* the remote store is empty when the application starts
InitApp ==
    /\ Init
    /\ remote.folders = {}
    /\ \A p \in ObjectPaths : ~remote.objects[p].exists

NextApp ==
    \/ \E ok \in BOOLEAN : Connect(ok)
    \/ Logout
    \/ \E path \in NavFolders : Navigate(path)
    \/ \E m \in MaxFileSizeSettings, a \in AllowedExtensionSettings,
          cf \in BOOLEAN, ow \in BOOLEAN :
          SaveSettings(m, a, cf, ow, FALSE)
    \/ ClearHistoryButton
    \/ \E files \in Batches, folder \in TargetFolders : UploadButton(files, folder)
    \/ BatchRejectType
    \/ BatchRejectSize
    \/ BatchUpload
    \/ CreateFolder
    \/ FilesUpload
    \/ SessionStart
    \/ SessionAppend
    \/ SessionFinish
    \/ LoopEnd
    \/ BatchRecord
    \/ BatchEnd
    \/ Rerun

\* the application
SpecApp == InitApp /\ [][NextApp]_vars

NextHistory ==
    \/ \E status \in {"Success", "Failed"} : AddToUploadHistoryCall(status)
    \/ ClearUploadHistory

\* add_to_upload_history and clear_upload_history on their own
SpecHistory == InitApp /\ [][NextHistory]_vars

---------------------------------------------------------------------------
(* Vocabulary of the properties *)

SessionOps == {"session_start", "session_append", "session_finish"}

\* the calls that send content: the put and the session calls
WriteOps == SessionOps \cup {"files_upload"}

IsSessionCall(c) == c.op \in SessionOps

\* the session calls of the upload, in call order
SessionCalls == SelectSeq(calls, IsSessionCall)

CallsOf(op) == {k \in 1..Len(calls) : calls[k].op = op}

CountOp(op) == Cardinality(CallsOf(op))

\* upload_large_file has issued its start call
ChunkedStarted == CallsOf("session_start") # {}

\* upload_large_file has returned
ChunkedDone == pc = "done" /\ ChunkedStarted

\* no session call has failed
AllSessionAcked == \A k \in 1..Len(calls) : IsSessionCall(calls[k]) => calls[k].outcome = "ok"

\* the bytes the store has acknowledged for the session: start and append payloads
AckedBytes ==
    LET acked == {k \in CallsOf("session_start") \cup CallsOf("session_append") :
                     calls[k].outcome = "ok"}
        RECURSIVE Sum(_)
        Sum(S) == IF S = {} THEN 0
                  ELSE LET k == CHOOSE x \in S : TRUE
                       IN  PayloadLen(calls[k].payload) + Sum(S \ {k})
    IN  Sum(acked)

CeilDiv(a, b) == (a + b - 1) \div b

RECURSIVE ConcatAll(_, _)
\* what a store holds after it took the payloads of cs in order
ConcatAll(data, cs) ==
    IF cs = <<>> THEN data ELSE ConcatAll(Concat(data, Head(cs).payload), Tail(cs))

Succeeded == result # <<>> /\ result[1]
Failed == result # <<>> /\ ~result[1]

---------------------------------------------------------------------------
(* C1 .. C8: upload_large_file *)

\* C1: a chunked upload in which no remote call fails issues exactly one
\* session-finish call, for every L >= 0 and C > 0; when L <= C the start call is
\* followed by no append and by one finish call with an empty payload.
C1_ExactlyOneFinish ==
    (ChunkedDone /\ chunk_size > 0 /\ AllSessionAcked) =>
        /\ CountOp("session_finish") = 1
        /\ file_size <= chunk_size =>
              /\ CountOp("session_append") = 0
              /\ \A k \in CallsOf("session_finish") : PayloadLen(calls[k].payload) = 0

\* C2: the chunked upload returns (True, None) only if a session-finish call of
\* the upload was issued and acknowledged.
C2_SuccessOnlyAfterFinishAck ==
    (ChunkedDone /\ Succeeded) =>
        \E k \in CallsOf("session_finish") : calls[k].outcome = "ok"

\* C3: a session call that fails is the last remote call of the upload, and the
\* upload has then returned succeeded = false with an error message.
C3_FailureAborts ==
    \A k \in 1..Len(calls) :
        (IsSessionCall(calls[k]) /\ calls[k].outcome = "error") =>
            /\ k = Len(calls)
            /\ pc = "done"
            /\ Failed
            /\ result[2] # None

\* C3 witness: an append failed after an acknowledged start and append.
C3_Witness ==
    /\ pc = "done"
    /\ Len(calls) >= 3
    /\ calls[Len(calls)].op = "session_append"
    /\ calls[Len(calls)].outcome = "error"
    /\ calls[Len(calls) - 1].op = "session_append"
    /\ calls[Len(calls) - 1].outcome = "ok"

\* C4: for C > 0 the cursor's offset never decreases and, after the start call,
\* equals the number of content bytes the store has acknowledged for the session.
C4_OffsetIsAckedBytes ==
    [][(chunk_size' > 0 /\ entry' # "none") =>
          /\ cursor'.offset >= cursor.offset
          /\ cursor'.session_id # 0 => cursor'.offset = AckedBytes']_vars

\* C5: in a chunked upload with C > 0 in which no call fails, the number of
\* append calls is ceil((L - C) / C) - 1 when L > C and 0 when L <= C.
C5_AppendCount ==
    (ChunkedDone /\ chunk_size > 0 /\ AllSessionAcked) =>
        CountOp("session_append") =
            IF file_size > chunk_size
            THEN CeilDiv(file_size - chunk_size, chunk_size) - 1
            ELSE 0

\* C5 witness: an upload without a failing call that made two appends or more.
C5_Witness ==
    /\ ChunkedDone /\ chunk_size > 0 /\ AllSessionAcked
    /\ CountOp("session_append") >= 2
    /\ CountOp("session_finish") = 1

\* C6: with L > C > 0 the payloads partition the buffer in call order: start has
\* [0, C), every append has the C bytes [offset, offset + C) at the offset it is
\* sent with, the finish call has [offset, L), and when the upload has succeeded
\* the payloads, concatenated, are the content.
C6_PayloadsPartition ==
    (ChunkedStarted /\ file_size > chunk_size /\ chunk_size > 0) =>
        LET sc == SessionCalls
        IN  /\ sc[1].op = "session_start"
            /\ sc[1].payload = [lo |-> 0, hi |-> chunk_size]
            /\ \A k \in 2..Len(sc) :
                  /\ sc[k].op \in {"session_append", "session_finish"}
                  /\ sc[k].offset = DataLen(ConcatAll(<<>>, SubSeq(sc, 1, k - 1)))
                  /\ sc[k].op = "session_append" =>
                        /\ sc[k].offset = (k - 1) * chunk_size
                        /\ sc[k].payload = [lo |-> sc[k].offset,
                                            hi |-> sc[k].offset + chunk_size]
                  /\ sc[k].op = "session_finish" =>
                        /\ k = Len(sc)
                        /\ sc[k].payload = [lo |-> sc[k].offset, hi |-> file_size]
                        /\ sc[k].offset + PayloadLen(sc[k].payload) = file_size
            /\ (pc = "done" /\ Succeeded) =>
                  /\ sc[Len(sc)].op = "session_finish"
                  /\ ConcatAll(<<>>, sc) = ContentData(file_size)
                  /\ (file_size = 10 * 1000 * 1000 /\ chunk_size = DefaultChunkSize) =>
                        /\ Len(sc) = 3
                        /\ PayloadLen(sc[1].payload) = 4194304
                        /\ PayloadLen(sc[2].payload) = 4194304
                        /\ sc[2].op = "session_append"
                        /\ PayloadLen(sc[3].payload) = 1611392

\* C6 witness: the 10,000,000 byte upload in 4 MiB chunks has succeeded.
C6_Witness ==
    /\ ChunkedDone /\ Succeeded
    /\ file_size = 10 * 1000 * 1000
    /\ chunk_size = DefaultChunkSize
    /\ CountOp("session_append") = 1

\* C7: after an upload with overwrite = true (and, when chunked, C > 0) has
\* succeeded, the object at the destination path holds exactly the content.
C7_RoundTrip ==
    (pc = "done" /\ Succeeded /\ overwrite /\ (ChunkedStarted => chunk_size > 0)) =>
        remote.objects[target_path] = Object(ContentData(file_size))

\* C8: a chunked upload that has returned succeeded = false has left the objects
\* of the store as they were: no session-finish call was acknowledged, and no
\* other session call names the destination path.
C8_NoPartialWrite ==
    (ChunkedDone /\ Failed) =>
        /\ remote.objects = remote0.objects
        /\ \A k \in 1..Len(calls) :
              /\ (calls[k].op = "session_finish") => calls[k].outcome = "error"
              /\ (calls[k].op \in {"session_start", "session_append"}) =>
                    calls[k].path # target_path

\* C8 witness: the finish call of an upload onto an existing object failed after
\* an acknowledged append.
C8_Witness ==
    /\ ChunkedDone /\ Failed
    /\ remote.objects[target_path].exists
    /\ CountOp("session_append") >= 1
    /\ calls[Len(calls)].op = "session_finish"

---------------------------------------------------------------------------
(* C9, C10: upload_to_dropbox and the parent folders *)

FolderFailure == <<FALSE, "Failed to create parent folders">>

\* the destination's parent folder was not on the remote when the upload was called
ParentMissing ==
    /\ DirName(target_path) \in AllFolders
    /\ DirName(target_path) \notin remote0.folders

RECURSIVE JoinPrefix(_, _)
\* "/" + segs[1] + "/" + ... + segs[k]
JoinPrefix(segs, k) ==
    IF k = 0 THEN <<>> ELSE JoinPrefix(segs, k - 1) \o <<"/">> \o segs[k]

\* C9: with the parent folder missing and create_folders_if_not_exist false,
\* upload_to_dropbox issues no put and no session call, and returns a failure.
C9_NoWriteWithoutParent ==
    (entry = "dropbox" /\ ~settings.create_folders_if_not_exist /\ ParentMissing) =>
        /\ \A k \in 1..Len(calls) : calls[k].op \notin WriteOps
        /\ pc = "done" => Failed

\* C10: with create_folders_if_not_exist true and a parent folder that is not the
\* root, the calls begin with one create-folder call per segment of the parent
\* folder, root first, before any put or session call; "already exists" counts
\* as success; the first create-folder call that fails otherwise is the last call
\* of the upload, whose result is (False, "Failed to create parent folders").
C10_FoldersFirst ==
    (entry = "dropbox" /\ settings.create_folders_if_not_exist
        /\ DirName(target_path) # <<"/">>) =>
        LET segs == Components(DirName(target_path))
            n == Len(segs)
        IN  /\ \A k \in 1..Len(calls) :
                  /\ k <= n => /\ calls[k].op = "create_folder"
                               /\ calls[k].path = JoinPrefix(segs, k)
                  /\ k > n => calls[k].op # "create_folder"
                  /\ k < Len(calls) => calls[k].outcome \in {"ok", "conflict"}
                  /\ (calls[k].op = "create_folder" /\ calls[k].outcome = "error") =>
                        /\ k = Len(calls)
                        /\ pc = "done"
                        /\ result = FolderFailure
            /\ result = FolderFailure =>
                  /\ calls # <<>>
                  /\ calls[Len(calls)].op = "create_folder"
                  /\ calls[Len(calls)].outcome = "error"
            /\ (pc \in {"small", "start", "loop"}
                   \/ (pc = "done" /\ result # FolderFailure
                          /\ result # <<FALSE, UnexpectedMsg>>)) => Len(calls) >= n

\* C10 witness: the first folder was already there and the second could not be made.
C10_Witness ==
    /\ entry = "dropbox"
    /\ pc = "done"
    /\ result = FolderFailure
    /\ Len(calls) = 2
    /\ calls[1].outcome = "conflict"
    /\ calls[2].op = "create_folder"
    /\ calls[2].outcome = "error"

---------------------------------------------------------------------------
(* C11, C12, C14: dispatch, chunk size validation, the result pair *)

\* upload_to_dropbox has passed its folder step
PassedFolderStep ==
    /\ entry = "dropbox"
    /\ \/ pc \in {"small", "start", "loop"}
       \/ pc = "done" /\ result # FolderFailure /\ result # <<FALSE, UnexpectedMsg>>

\* C11: an upload through upload_to_dropbox that has passed the folder step
\* issues, for a file under 150 MiB, one put of the whole buffer in the mode
\* overwrite_existing selects and no session call; for a file of 150 MiB or more
\* it issues no put and runs the session protocol with the configured chunk size,
\* whose finish call commits the destination path in that same mode.
C11_Dispatch ==
    PassedFolderStep =>
        LET mode == IF settings.overwrite_existing THEN "overwrite" ELSE "add"
        IN  IF file_size < 150 * 1024 * 1024
            THEN /\ \A k \in 1..Len(calls) : calls[k].op \notin SessionOps
                 /\ pc = "small" => CountOp("files_upload") = 0
                 /\ pc = "done" =>
                       /\ CountOp("files_upload") = 1
                       /\ \A k \in CallsOf("files_upload") :
                             /\ calls[k].payload = [lo |-> 0, hi |-> file_size]
                             /\ calls[k].path = target_path
                             /\ calls[k].mode = mode
                 /\ pc \in {"small", "done"}
            ELSE /\ CountOp("files_upload") = 0
                 /\ pc \in {"start", "loop", "done"}
                 /\ chunk_size = settings.chunk_size
                 /\ pc # "start" => CountOp("session_start") = 1
                 /\ \A k \in CallsOf("session_finish") :
                       /\ calls[k].path = target_path
                       /\ calls[k].mode = mode

\* C11 witness: a file of exactly 150 MiB was uploaded through the session
\* protocol in mode add.
C11_Witness ==
    /\ PassedFolderStep
    /\ pc = "done" /\ Succeeded
    /\ file_size = 150 * 1024 * 1024
    /\ ~settings.overwrite_existing
    /\ \E k \in CallsOf("session_finish") : calls[k].outcome = "ok"

\* C12: a chunked upload with a chunk size C <= 0 makes no remote call and
\* returns a failure.
C12_NonPositiveChunkRejected ==
    (entry = "large" /\ chunk_size <= 0) =>
        /\ calls = <<>>
        /\ pc = "done" => Failed

\* C14: every result returned by upload_small_file, upload_large_file and
\* upload_to_dropbox has an error detail if and only if succeeded is false.
C14_ErrorDetailIffFailed ==
    result # <<>> => (result[2] # None <=> ~result[1])

\* C14 witness: upload_to_dropbox has returned from its own except clause.
C14_Witness ==
    /\ pc = "done"
    /\ entry = "dropbox"
    /\ result = <<FALSE, UnexpectedMsg>>

---------------------------------------------------------------------------
(* C13: validation in the batch loop *)

\* the files each allowed_extensions setting lets through
AllowedNames(a) ==
    IF a = <<"*">> THEN {<<"a", ".", "t">>, <<"b", ".", "P">>, <<"c">>}
    ELSE IF a = <<".", "t">> THEN {<<"a", ".", "t">>}
    ELSE {<<"a", ".", "t">>, <<"b", ".", "P">>}

\* the batch loop is at a file that settings refuse
AtRefusedFile ==
    /\ pc = "batch"
    /\ file_idx <= Len(uploaded_files)
    /\ \/ CurrentFile.name \notin AllowedNames(settings.allowed_extensions)
       \/ CurrentFile.size > settings.max_file_size_mb * 1024 * 1024

\* the batch loop is at a file of an allowed type and of exactly the size limit
AtLimitFile ==
    /\ pc = "batch"
    /\ file_idx <= Len(uploaded_files)
    /\ CurrentFile.name \in AllowedNames(settings.allowed_extensions)
    /\ CurrentFile.size = settings.max_file_size_mb * 1024 * 1024

\* C13: in the batch loop a file whose extension settings do not allow, or whose
\* size is over max_file_size_mb * 1 MiB, causes no remote call and no change of
\* the remote store; it is counted as failed and recorded at the head of the
\* history as a "Failed" entry; a file of exactly the limit is handed to
\* upload_to_dropbox.
C13_InvalidFileNoRemoteCall ==
    [][/\ AtRefusedFile =>
             /\ calls' = <<>> /\ calls = <<>>
             /\ remote' = remote
             /\ pc' = "batch"
             /\ failed_uploads' = failed_uploads + 1
             /\ successful_uploads' = successful_uploads
             /\ upload_history' # <<>>
             /\ upload_history'[1].status = "Failed"
             /\ upload_history'[1].file_name = CurrentFile.name
             /\ upload_history'[1].error_message # None
             /\ Len(attempted') = Len(attempted) + 1
       /\ AtLimitFile =>
             /\ entry' = "dropbox"
             /\ file_size' = CurrentFile.size
             /\ failed_uploads' = failed_uploads
             /\ upload_history' = upload_history]_vars

\* C13 witness: a batch of two files has ended with one file refused for its
\* type and the other for its size, both counted as failed, nothing sent.
C13_Witness ==
    /\ pc = "finished"
    /\ failed_uploads = 2
    /\ calls = <<>>
    /\ \A p \in ObjectPaths : ~remote.objects[p].exists
    /\ \E k \in 1..Len(upload_history) :
          upload_history[k].error_message = "File type not allowed"
    /\ \E k \in 1..Len(upload_history) :
          upload_history[k].error_message = SizeLimitMsg(1)

---------------------------------------------------------------------------
(* C15, C16: the upload history *)

\* C15: after any sequence of add_to_upload_history and clear_upload_history the
\* history holds at most 100 entries, most recent first, and equals the newest
\* min(n, 100) of the n attempts made since the last clear.
C15_HistoryNewest100 ==
    /\ Len(upload_history) <= 100
    /\ upload_history = SubSeq(attempted, 1, Min(Len(attempted), 100))
    /\ \A k \in 1..(Len(upload_history) - 1) :
          upload_history[k].id > upload_history[k + 1].id

\* C15 witness: more than 100 attempts since the last clear, the oldest dropped.
C15_Witness ==
    /\ Len(attempted) > 100
    /\ Len(upload_history) = 100
    /\ upload_history[1] = attempted[1]
    /\ upload_history[100] # attempted[Len(attempted)]

\* C16: a logout leaves the upload history empty, like the authenticated flag,
\* the client and the current folder.
C16_LogoutResetsHistory ==
    [][Logout => (/\ ~authenticated'
                  /\ dbx_client' = None
                  /\ current_folder' = <<>>
                  /\ upload_history' = <<>>)]_vars

---------------------------------------------------------------------------
(* C17: the batch loop *)

\* a batch is being processed
InBatch == uploaded_files # <<>>

\* what holds of a batch in every state: the files before file_idx, and only
\* they, are counted and recorded, in submission order; the upload under way is
\* the one of the file at file_idx; the batch ends after its last file
BatchState ==
    InBatch =>
       LET N == Len(uploaded_files)
       IN  /\ file_idx \in 1..(N + 1)
           /\ successful_uploads + failed_uploads = file_idx - 1
           /\ Len(attempted) >= file_idx - 1
           /\ \A k \in 1..(file_idx - 1) :
                 attempted[file_idx - k].file_name = uploaded_files[k].name
           /\ Cardinality({k \in 1..(file_idx - 1) :
                             attempted[k].status = "Success"}) = successful_uploads
           /\ pc \in {"folders", "small", "start", "loop", "done"} =>
                 /\ file_idx <= N
                 /\ entry = "dropbox"
                 /\ target_path = BatchTargetPath(target_folder, uploaded_files[file_idx].name)
                 /\ file_size = uploaded_files[file_idx].size
           /\ pc = "finished" =>
                 /\ file_idx = N + 1
                 /\ successful_uploads + failed_uploads = N

\* what holds of every step of a batch: the files and the folder stay, file_idx
\* moves on by one file at most, and exactly when it does one entry, of the file
\* left behind, is put at the head of the history
BatchStep ==
    (InBatch /\ uploaded_files' # <<>>) =>
       /\ uploaded_files' = uploaded_files
       /\ target_folder' = target_folder
       /\ file_idx' \in {file_idx, file_idx + 1}
       /\ file_idx' = file_idx =>
             /\ attempted' = attempted
             /\ upload_history' = upload_history
       /\ file_idx' = file_idx + 1 =>
             /\ Len(attempted') = Len(attempted) + 1
             /\ SubSeq(attempted', 2, Len(attempted')) = attempted
             /\ attempted'[1].file_name = uploaded_files[file_idx].name
             /\ upload_history'[1] = attempted'[1]

\* C17: the files of a batch are attempted one at a time in submission order, a
\* failed file does not keep the later files from being attempted, every file
\* gets exactly one history entry, and at the end
\* successful_uploads + failed_uploads = N.
C17_BatchAttemptsEveryFile ==
    [][BatchState' /\ BatchStep]_vars

\* C17 witness: a batch of two files has ended; the first file failed at the
\* folder step and the second was uploaded.
C17_Witness ==
    /\ pc = "finished"
    /\ Len(uploaded_files) = 2
    /\ successful_uploads = 1 /\ failed_uploads = 1
    /\ attempted[2].status = "Failed"
    /\ attempted[2].error_message = "Failed to create parent folders"
    /\ attempted[1].status = "Success"

---------------------------------------------------------------------------
(* C18: the chunk size of the settings *)

\* C18: no operation of the application changes settings.chunk_size from its
\* initial 4 MiB, and upload_to_dropbox takes the session protocol exactly for
\* the files of 150 MiB or more; so every chunked upload reached through
\* upload_to_dropbox has L >= 150 MiB > chunk_size, and there a successful
\* result comes with exactly one finish call, acknowledged, and at least one
\* append call.
C18_ChunkSizeFixed ==
    /\ settings.chunk_size = 4 * 1024 * 1024
    /\ (entry = "dropbox" /\ pc = "small") => file_size < 150 * 1024 * 1024
    /\ (entry = "dropbox" /\ (pc \in {"start", "loop"} \/ ChunkedStarted)) =>
          /\ chunk_size = 4 * 1024 * 1024
          /\ file_size >= 150 * 1024 * 1024
          /\ file_size > chunk_size
    /\ (entry = "dropbox" /\ ChunkedDone /\ Succeeded) =>
          /\ CountOp("session_finish") = 1
          /\ \A k \in CallsOf("session_finish") : calls[k].outcome = "ok"
          /\ CountOp("session_append") >= 1
          /\ \A k \in CallsOf("session_append") : calls[k].outcome = "ok"

\* C18 witness: after the settings were saved with other values, a file of
\* 150 MiB of a batch has been uploaded through the session protocol.
C18_Witness ==
    /\ InBatch
    /\ entry = "dropbox"
    /\ ChunkedDone /\ Succeeded
    /\ ~settings.overwrite_existing
    /\ ~settings.create_folders_if_not_exist
    /\ CountOp("session_append") = 36

====
